---- MODULE Spec2Model ----
(***************************************************************************)
(* Model of crates/napi/src/error.rs: the Error value, its retained        *)
(* reference to a host exception, the throwable wrappers generated by      *)
(* impl_object_methods!, and the check_pending_exception! macro, together  *)
(* with the part of the host runtime (Node-API) those operations call.     *)
(* The model is of the default build (feature "noop" off); debug           *)
(* assertions are on or off, chosen in Init.                               *)
(***************************************************************************)
EXTENDS Integers, Sequences, FiniteSets, TLC

\* ------------------------------------------------------------- bounds
MaxErrs == 2      \* Error values constructed in one run
MaxRefs == 1      \* references the host hands out in one run

\* ---------------------------------------------------------- constants
NULL == 0         \* ptr::null_mut()

Slots == 1..MaxErrs
Refs == 1..MaxRefs
Envs == {1, 2}                       \* sys::napi_env handles (non-null)
ObjectIds == {"a", "b"}              \* script objects the host can throw
Reasons == {"", "boom"}
\* the values user code assigns to the pub fields of an Error it got from the host
FieldEdits == {<<"Status::PendingException", "">>, <<"Status::InvalidArg", "boom">>}

\* sys::Status raw codes
napi_ok == "napi_ok"
napi_invalid_arg == "napi_invalid_arg"
napi_generic_failure == "napi_generic_failure"
napi_pending_exception == "napi_pending_exception"
RawCodes == {napi_ok, napi_invalid_arg, napi_generic_failure, napi_pending_exception}
FailureCodes == {napi_invalid_arg, napi_generic_failure}

\* crate::Status
InvalidArg == "Status::InvalidArg"
GenericFailure == "Status::GenericFailure"
PendingException == "Status::PendingException"
StatusOk == "Status::Ok"
StatusUnknown == "Status::Unknown"
\* the statuses user code gives Error::new and Error::from_status
ErrStatuses == {InvalidArg, PendingException}

\* Status::from(raw code)
StatusFrom(c) ==
  CASE c = napi_ok -> StatusOk
    [] c = napi_invalid_arg -> InvalidArg
    [] c = napi_generic_failure -> GenericFailure
    [] c = napi_pending_exception -> PendingException
    [] OTHER -> StatusUnknown

\* format!("{:?}", status): the variant's name
StatusDebug(s) ==
  CASE s = StatusOk -> "Ok"
    [] s = InvalidArg -> "InvalidArg"
    [] s = GenericFailure -> "GenericFailure"
    [] s = PendingException -> "PendingException"
    [] OTHER -> "Unknown"

\* the wrappers of impl_object_methods! and the host constructor of each
Kinds == {"JsError", "JsTypeError", "JsRangeError", "JsSyntaxError"}
KindCtor(k) ==
  CASE k = "JsError" -> "napi_create_error"
    [] k = "JsTypeError" -> "napi_create_type_error"
    [] k = "JsRangeError" -> "napi_create_range_error"
    [] k = "JsSyntaxError" -> "node_api_create_syntax_error"

\* ------------------------------------------------------- host values
NullValue == [kind |-> "null"]
Object(i) == [kind |-> "object", id |-> i]
Objects == {Object(i) : i \in ObjectIds}
HostString(t) == [kind |-> "string", text |-> t]
\* the opaque handle of an error object that constructor ctor has just built,
\* and what was built: the constructor and the texts of its code and message
Created(ctor) == [kind |-> "created"]
HostError(ctor, code, msg) == [kind |-> "error", ctor |-> ctor, code |-> code, msg |-> msg]

\* one foreign call, as the host sees it
Call(fn, env, ref, val, status) ==
  [fn |-> fn, env |-> env, ref |-> ref, val |-> val, status |-> status]

VARIABLES
  debug,     \* cfg(debug_assertions) of the build
  errs,      \* Slots -> the Error (or wrapper) stored there
  host,      \* the host runtime: references, pending exceptions, reclaimed objects
  last,      \* the operation just performed: its foreign calls and its result
  made       \* Error values constructed so far

vars == <<debug, errs, host, last, made>>

\* ------------------------------------------------------- Error values
NoError == [live |-> FALSE]

\* Error::new
ErrorNew(status, reason) ==
  [live |-> TRUE, status |-> status, reason |-> reason,
   maybe_raw |-> NULL, maybe_env |-> NULL]

\* Error::from_status
ErrorFromStatus(status) ==
  [live |-> TRUE, status |-> status, reason |-> "",
   maybe_raw |-> NULL, maybe_env |-> NULL]

\* Error::from_reason
ErrorFromReason(reason) ==
  [live |-> TRUE, status |-> GenericFailure, reason |-> reason,
   maybe_raw |-> NULL, maybe_env |-> NULL]

\* the k-th Error constructed lives in slot k until it is dropped or consumed
FreeSlots == {s \in Slots : s > made}
LiveSlots == {s \in Slots : errs[s].live}
FirstFree == made + 1

\* the Error values that hold reference r
Holders(r) == {s \in LiveSlots : errs[s].maybe_raw = r}

\* ------------------------------------------------------ host runtime
NoRef == [state |-> "free"]

HostInit ==
  [refs |-> [r \in Refs |-> NoRef],
   pending |-> NullValue,
   collected |-> {},
   deleteCalls |-> [r \in Refs |-> 0]]

FreeRefs(h) == {r \in Refs : h.refs[r].state = "free"}
FreshRef(h) == CHOOSE r \in FreeRefs(h) : \A q \in FreeRefs(h) : r <= q

\* the references to value v that keep it alive (count > 0)
StrongRefs(h, v) ==
  {r \in Refs : h.refs[r].state = "live" /\ h.refs[r].value = v /\ h.refs[r].count > 0}
WeakRefs(h, v) ==
  {r \in Refs : h.refs[r].state = "live" /\ h.refs[r].value = v /\ h.refs[r].count = 0}

\* the host may reclaim v once no handle scope holds it: no exception slot and
\* no counted reference roots it
Reclaimable(h, v) ==
  /\ v \notin h.collected
  /\ h.pending # v
  /\ StrongRefs(h, v) = {}

\* napi_create_reference(env, value, initial_refcount, &mut result); st is the
\* status the host reports
napi_create_reference(h, env, value, initial_refcount, st) ==
  IF st = napi_ok
  THEN LET r == FreshRef(h) IN
       [h |-> [h EXCEPT !.refs[r] = [state |-> "live", value |-> value,
                                     env |-> env, count |-> initial_refcount]],
        status |-> napi_ok, result |-> r,
        call |-> Call("napi_create_reference", env, r, value, napi_ok)]
  ELSE [h |-> h, status |-> st, result |-> NULL,
        call |-> Call("napi_create_reference", env, NULL, value, st)]

\* what a call on a deleted reference can produce (use after free): the stale
\* value, nothing, or a failure
UBOutcomes == {"stale", "null", "fail"}

\* napi_get_reference_value(env, ref, &mut value); ub picks the outcome when
\* ref was deleted before
napi_get_reference_value(h, env, r, ub) ==
  LET rec == h.refs[r] IN
  IF rec.state = "live"
  THEN IF rec.value \in h.collected
       THEN [h |-> h, status |-> napi_ok, value |-> NullValue,
             call |-> Call("napi_get_reference_value", env, r, NullValue, napi_ok)]
       ELSE [h |-> h,
             status |-> napi_ok, value |-> rec.value,
             call |-> Call("napi_get_reference_value", env, r, rec.value, napi_ok)]
  ELSE CASE ub = "stale" /\ rec.value \notin h.collected ->
              [h |-> h,
               status |-> napi_ok, value |-> rec.value,
               call |-> Call("napi_get_reference_value", env, r, rec.value, napi_ok)]
         [] ub = "fail" ->
              [h |-> h, status |-> napi_generic_failure, value |-> NullValue,
               call |-> Call("napi_get_reference_value", env, r, NullValue,
                             napi_generic_failure)]
         [] OTHER ->
              [h |-> h, status |-> napi_ok, value |-> NullValue,
               call |-> Call("napi_get_reference_value", env, r, NullValue, napi_ok)]

\* napi_delete_reference(env, ref); st is the status the host reports
napi_delete_reference(h, env, r, st) ==
  [h |-> [h EXCEPT !.deleteCalls[r] = @ + 1,
                   !.refs[r].state = IF st = napi_ok THEN "deleted" ELSE @],
   status |-> st,
   call |-> Call("napi_delete_reference", env, r, NullValue, st)]

\* napi_create_string_utf8(env, ptr, len, &mut result)
napi_create_string_utf8(h, env, text) ==
  [h |-> h, status |-> napi_ok, value |-> HostString(text),
   call |-> Call("napi_create_string_utf8", env, NULL, HostString(text), napi_ok)]

\* $kind(env, code, msg, &mut result): the host constructor of one variant
napi_create_error_kind(h, env, ctor, code, msg) ==
  [h |-> h, status |-> napi_ok, value |-> Created(ctor),
   call |-> Call(ctor, env, NULL, HostError(ctor, code.text, msg.text), napi_ok)]

\* napi_throw(env, value): value becomes the pending exception of the thread
\* that the environments run on; a null value is refused
napi_throw(h, env, value) ==
  IF value = NullValue
  THEN [h |-> h, status |-> napi_invalid_arg,
        call |-> Call("napi_throw", env, NULL, value, napi_invalid_arg)]
  ELSE [h |-> [h EXCEPT !.pending = value],
        status |-> napi_ok,
        call |-> Call("napi_throw", env, NULL, value, napi_ok)]

\* napi_get_and_clear_last_exception(env, &mut result)
napi_get_and_clear_last_exception(h, env) ==
  LET v == h.pending IN
  [h |-> [h EXCEPT !.pending = NullValue],
   status |-> napi_ok, value |-> v,
   call |-> Call("napi_get_and_clear_last_exception", env, NULL, v, napi_ok)]

\* ------------------------------------------------ the code of error.rs
InitialRefcount == 0   \* the initial_refcount argument of napi_create_reference

\* fault: From<JsUnknown> that leaves maybe_raw null after a successful
\* napi_create_reference
ErrorFromJsUnknownLosesRef(h, env, value, cst) ==
  LET c == napi_create_reference(h, env, value, InitialRefcount, cst) IN
  IF c.status # napi_ok
  THEN [h |-> c.h, calls |-> <<c.call>>, err |-> ErrorNew(StatusFrom(c.status), "")]
  ELSE [h |-> c.h, calls |-> <<c.call>>,
        err |-> [live |-> TRUE, status |-> GenericFailure, reason |-> "",
                 maybe_raw |-> NULL, maybe_env |-> env]]

\* fault: From<JsUnknown> that reports every failure of napi_create_reference as
\* GenericFailure
ErrorFromJsUnknownFlattens(h, env, value, cst) ==
  LET c == napi_create_reference(h, env, value, InitialRefcount, cst) IN
  IF c.status # napi_ok
  THEN [h |-> c.h, calls |-> <<c.call>>, err |-> ErrorNew(GenericFailure, "")]
  ELSE [h |-> c.h, calls |-> <<c.call>>,
        err |-> [live |-> TRUE, status |-> GenericFailure, reason |-> "",
                 maybe_raw |-> c.result, maybe_env |-> env]]

\* impl From<JsUnknown> for Error; cst is the status of napi_create_reference
ErrorFromJsUnknown(h, env, value, cst) ==
  LET c == napi_create_reference(h, env, value, InitialRefcount, cst) IN
  IF c.status # napi_ok
  THEN [h |-> c.h, calls |-> <<c.call>>, err |-> ErrorNew(StatusFrom(c.status), "")]
  ELSE [h |-> c.h, calls |-> <<c.call>>,
        err |-> [live |-> TRUE, status |-> GenericFailure, reason |-> "",
                 maybe_raw |-> c.result, maybe_env |-> env]]

\* fault: the guard of Drop with the test of maybe_raw inverted
DropReleasesInverted(err) == err.maybe_env # NULL /\ err.maybe_raw = NULL

\* the guard of impl Drop for Error
DropReleases(err) == err.maybe_env # NULL /\ err.maybe_raw # NULL

\* fault: Drop without the null tests, which hands the host a null napi_ref
ErrorDropUnguarded(h, err, dst) ==
  IF err.maybe_raw # NULL
  THEN LET d == napi_delete_reference(h, err.maybe_env, err.maybe_raw, dst) IN
       [h |-> d.h, calls |-> <<d.call>>, panic |-> debug /\ d.status # napi_ok]
  ELSE [h |-> h,
        calls |-> <<Call("napi_delete_reference", err.maybe_env, NULL, NullValue, dst)>>,
        panic |-> debug /\ dst # napi_ok]

\* impl Drop for Error; dst is the status of napi_delete_reference
ErrorDrop(h, err, dst) ==
  IF DropReleases(err)
  THEN LET d == napi_delete_reference(h, err.maybe_env, err.maybe_raw, dst) IN
       [h |-> d.h, calls |-> <<d.call>>, panic |-> debug /\ d.status # napi_ok]
  ELSE [h |-> h, calls |-> <<>>, panic |-> FALSE]

\* impl fmt::Display for Error: the text written to the formatter
ErrorDisplay(err) ==
  IF err.reason # ""
  THEN StatusDebug(err.status) \o ", " \o err.reason
  ELSE StatusDebug(err.status)

\* fault: check_status! that drops the formatted message
CheckStatusDropsMessage(c, msg) ==
  IF c = napi_ok
  THEN [ok |-> TRUE, err |-> NoError]
  ELSE [ok |-> FALSE, err |-> ErrorNew(StatusFrom(c), "")]

\* check_status!(code) / check_status!(code, msg...)
CheckStatus(c, msg) ==
  IF c = napi_ok
  THEN [ok |-> TRUE, err |-> NoError]
  ELSE [ok |-> FALSE, err |-> ErrorNew(StatusFrom(c), msg)]

\* the branch of into_value taken for a retained exception
HasRetained(err) == err.maybe_raw # NULL

\* $js_value::into_value(self, env): self is dropped when it returns or unwinds
IntoValueOf(h, err, kind, env, ub, dst) ==
  IF HasRetained(err)
  THEN LET g == napi_get_reference_value(h, env, err.maybe_raw, ub)
           d == ErrorDrop(g.h, err, dst)
       IN [h |-> d.h, calls |-> <<g.call>> \o d.calls, value |-> g.value,
           panic |-> (debug /\ g.status # napi_ok) \/ d.panic]
  ELSE LET c == napi_create_string_utf8(h, env, StatusDebug(err.status))
           r == napi_create_string_utf8(c.h, env, err.reason)
           e == napi_create_error_kind(r.h, env, KindCtor(kind), c.value, r.value)
           d == ErrorDrop(e.h, err, dst)
       IN [h |-> d.h, calls |-> <<c.call, r.call, e.call>> \o d.calls,
           value |-> e.value, panic |-> d.panic]

\* the napi_throw calls of throw_into: one under cfg(debug_assertions), whose
\* status is asserted, and one in every build
ThrowCalls(h, env, value) ==
  LET t1 == napi_throw(h, env, value)
      t2 == napi_throw(IF debug THEN t1.h ELSE h, env, value)
  IN [h |-> t2.h,
      calls |-> IF debug THEN <<t1.call, t2.call>> ELSE <<t2.call>>,
      panic |-> debug /\ t1.status # napi_ok]

\* the early return of throw_into
ThrowSkipped(err) == err.status = PendingException

\* $js_value::throw_into(self, env)
ThrowIntoOf(h, err, kind, env, ub, dst) ==
  IF ThrowSkipped(err)
  THEN LET d == ErrorDrop(h, err, dst) IN
       [h |-> d.h, calls |-> d.calls, value |-> NullValue, panic |-> d.panic]
  ELSE LET v == IntoValueOf(h, err, kind, env, ub, dst) IN
       IF v.panic
       THEN v
       ELSE LET t == ThrowCalls(v.h, env, v.value) IN
            [h |-> t.h, calls |-> v.calls \o t.calls, value |-> v.value,
             panic |-> t.panic]

\* $js_value::throw(&self, env)
ThrowOf(h, err, kind, env) ==
  LET c == napi_create_string_utf8(h, env, StatusDebug(err.status))
      r == napi_create_string_utf8(c.h, env, err.reason)
      e == napi_create_error_kind(r.h, env, KindCtor(kind), c.value, r.value)
      t == napi_throw(e.h, env, e.value)
  IN [h |-> t.h, calls |-> <<c.call, r.call, e.call, t.call>>, value |-> e.value,
      result |-> CheckStatus(t.status, "")]

\* impl ToNapiValue for Error
ErrorToNapiValue(h, val, env, ub, dst) ==
  IF val.maybe_raw = NULL
  THEN LET v == IntoValueOf(h, val, "JsError", env, ub, dst) IN
       [h |-> v.h, calls |-> v.calls, value |-> v.value, panic |-> v.panic,
        result |-> CheckStatus(napi_ok, "")]
  ELSE LET g == napi_get_reference_value(h, val.maybe_env, val.maybe_raw, ub)
           d == ErrorDrop(g.h, val, dst)
       IN [h |-> d.h, calls |-> <<g.call>> \o d.calls,
           value |-> IF g.status = napi_ok THEN g.value ELSE NullValue,
           panic |-> d.panic, result |-> CheckStatus(g.status, "")]

\* fault: check_pending_exception! whose pending branch yields Err in place
\* instead of returning from the enclosing function
CheckPendingExceptionNoReturn(h, env, c, msg, cst) ==
  CASE c = napi_ok ->
         [h |-> h, calls |-> <<>>, flow |-> "continue", cleared |-> NullValue,
          result |-> [ok |-> TRUE, err |-> NoError]]
    [] c = napi_pending_exception ->
         LET g == napi_get_and_clear_last_exception(h, env)
             f == ErrorFromJsUnknown(g.h, env, g.value, cst)
         IN [h |-> f.h, calls |-> <<g.call>> \o f.calls, flow |-> "continue",
             cleared |-> g.value, result |-> [ok |-> FALSE, err |-> f.err]]
    [] OTHER ->
         [h |-> h, calls |-> <<>>, flow |-> "continue", cleared |-> NullValue,
          result |-> [ok |-> FALSE, err |-> ErrorNew(StatusFrom(c), msg)]]

\* check_pending_exception!(env, code) and (env, code, msg...); flow tells
\* whether the enclosing function goes on or returns
CheckPendingExceptionOf(h, env, c, msg, cst) ==
  CASE c = napi_ok ->
         [h |-> h, calls |-> <<>>, flow |-> "continue", cleared |-> NullValue,
          result |-> [ok |-> TRUE, err |-> NoError]]
    [] c = napi_pending_exception ->
         LET g == napi_get_and_clear_last_exception(h, env)
             f == ErrorFromJsUnknown(g.h, env, g.value, cst)
         IN [h |-> f.h, calls |-> <<g.call>> \o f.calls, flow |-> "return",
             cleared |-> g.value, result |-> [ok |-> FALSE, err |-> f.err]]
    [] OTHER ->
         [h |-> h, calls |-> <<>>, flow |-> "continue", cleared |-> NullValue,
          result |-> [ok |-> FALSE, err |-> ErrorNew(StatusFrom(c), msg)]]

\* ----------------------------------------------------------- actions
NoOp == [op |-> "none"]

Done(op, slot, kind, env, err, r) ==
  [op |-> op, slot |-> slot, kind |-> kind, env |-> env, err |-> err,
   calls |-> r.calls, value |-> r.value, result |-> r.result, flow |-> r.flow,
   panic |-> r.panic, code |-> "none", msg |-> ""]

Plain(calls) ==
  [calls |-> calls, value |-> NullValue, result |-> [ok |-> TRUE, err |-> NoError],
   flow |-> "continue", panic |-> FALSE]

\* no operation is under way: the caller has taken the result of the last one
Idle == last = NoOp

Init ==
  /\ debug \in BOOLEAN
  /\ errs = [s \in Slots |-> NoError]
  /\ host = HostInit
  /\ last = NoOp
  /\ made = 0

\* Error::new(status, reason)
New(status, reason) ==
  /\ Idle
  /\ FreeSlots # {}
  /\ errs' = [errs EXCEPT ![FirstFree] = ErrorNew(status, reason)]
  /\ last' = Done("new", FirstFree, "Error", NULL, ErrorNew(status, reason), Plain(<<>>))
  /\ made' = made + 1
  /\ UNCHANGED <<debug, host>>

\* Error::from_status(status)
FromStatus(status) ==
  /\ Idle
  /\ FreeSlots # {}
  /\ errs' = [errs EXCEPT ![FirstFree] = ErrorFromStatus(status)]
  /\ last' = Done("from_status", FirstFree, "Error", NULL, ErrorFromStatus(status),
                  Plain(<<>>))
  /\ made' = made + 1
  /\ UNCHANGED <<debug, host>>

\* Error::from_reason(reason)
FromReason(reason) ==
  /\ Idle
  /\ FreeSlots # {}
  /\ errs' = [errs EXCEPT ![FirstFree] = ErrorFromReason(reason)]
  /\ last' = Done("from_reason", FirstFree, "Error", NULL, ErrorFromReason(reason),
                  Plain(<<>>))
  /\ made' = made + 1
  /\ UNCHANGED <<debug, host>>

\* Error::from(JsUnknown) on an object the caller holds a local handle to
FromJsUnknown(env, v, cst) ==
  /\ Idle
  /\ FreeSlots # {}
  /\ v \notin host.collected
  /\ cst = napi_ok => FreeRefs(host) # {}
  /\ LET f == ErrorFromJsUnknown(host, env, v, cst) IN
     /\ errs' = [errs EXCEPT ![FirstFree] = f.err]
     /\ host' = f.h
     /\ last' = Done("from_js_unknown", FirstFree, "Error", env, f.err,
                     [Plain(f.calls) EXCEPT !.value = v])
  /\ made' = made + 1
  /\ UNCHANGED debug

\* #[derive(Clone)]: a field-by-field copy of an Error
Clone(s) ==
  /\ Idle
  /\ s \in LiveSlots
  /\ FreeSlots # {}
  /\ errs' = [errs EXCEPT ![FirstFree] = errs[s]]
  /\ made' = made + 1
  /\ last' = Done("clone", FirstFree, "Error", NULL, errs[s], Plain(<<>>))
  /\ UNCHANGED <<debug, host>>

\* format!("{}", err): borrows the Error and makes no foreign call
Display(s) ==
  /\ Idle
  /\ s \in LiveSlots
  /\ last' = Done("display", s, "Error", NULL, errs[s],
                  [Plain(<<>>) EXCEPT !.value = HostString(ErrorDisplay(errs[s]))])
  /\ UNCHANGED <<debug, errs, host, made>>

\* assignment to the pub fields status and reason of an Error that retains an
\* exception (Error::new gives the others any status and reason)
SetFields(s, status, reason) ==
  /\ Idle
  /\ s \in LiveSlots
  /\ HasRetained(errs[s])
  /\ <<status, reason>> # <<errs[s].status, errs[s].reason>>
  /\ errs' = [errs EXCEPT ![s].status = status, ![s].reason = reason]
  /\ last' = NoOp
  /\ UNCHANGED <<debug, host, made>>

\* the Error goes out of scope
Drop(s, dst) ==
  /\ Idle
  /\ s \in LiveSlots
  /\ LET d == ErrorDrop(host, errs[s], dst) IN
     /\ host' = d.h
     /\ last' = Done("drop", s, "Error", NULL, errs[s],
                     [Plain(d.calls) EXCEPT !.panic = d.panic])
  /\ errs' = [errs EXCEPT ![s] = NoError]
  /\ UNCHANGED <<debug, made>>

\* $js_value::from(err).into_value(env), for the wrapper type named by kind
IntoValue(s, kind, env, ub, dst) ==
  /\ Idle
  /\ s \in LiveSlots
  /\ LET v == IntoValueOf(host, errs[s], kind, env, ub, dst) IN
     /\ host' = v.h
     /\ last' = Done("into_value", s, kind, env, errs[s],
                     [Plain(v.calls) EXCEPT !.value = v.value, !.panic = v.panic])
  /\ errs' = [errs EXCEPT ![s] = NoError]
  /\ UNCHANGED <<debug, made>>

\* $js_value::from(err).into_unknown(env): into_value(env.raw()) as a JsUnknown
IntoUnknown(s, kind, env, ub, dst) ==
  /\ Idle
  /\ s \in LiveSlots
  /\ LET v == IntoValueOf(host, errs[s], kind, env, ub, dst) IN
     /\ host' = v.h
     /\ last' = Done("into_unknown", s, kind, env, errs[s],
                     [Plain(v.calls) EXCEPT !.value = v.value, !.panic = v.panic])
  /\ errs' = [errs EXCEPT ![s] = NoError]
  /\ UNCHANGED <<debug, made>>

\* $js_value::from(err).throw_into(env)
ThrowInto(s, kind, env, ub, dst) ==
  /\ Idle
  /\ s \in LiveSlots
  /\ LET t == ThrowIntoOf(host, errs[s], kind, env, ub, dst) IN
     /\ host' = t.h
     /\ last' = Done("throw_into", s, kind, env, errs[s],
                     [Plain(t.calls) EXCEPT !.value = t.value, !.panic = t.panic])
  /\ errs' = [errs EXCEPT ![s] = NoError]
  /\ UNCHANGED <<debug, made>>

\* wrapper.throw(env): borrows the wrapper, whose Error lives on
Throw(s, kind, env) ==
  /\ Idle
  /\ s \in LiveSlots
  /\ LET t == ThrowOf(host, errs[s], kind, env) IN
     /\ host' = t.h
     /\ last' = Done("throw", s, kind, env, errs[s],
                     [Plain(t.calls) EXCEPT !.value = t.value, !.result = t.result])
  /\ UNCHANGED <<debug, errs, made>>

\* ToNapiValue::to_napi_value(env, val) for an Error (kind "Error") and, through
\* val.0, for a wrapper of the given kind
ToNapiValue(s, kind, env, ub, dst) ==
  /\ Idle
  /\ s \in LiveSlots
  /\ LET t == ErrorToNapiValue(host, errs[s], env, ub, dst) IN
     /\ host' = t.h
     /\ last' = Done("to_napi_value", s, kind, env, errs[s],
                     [Plain(t.calls) EXCEPT !.value = t.value, !.panic = t.panic,
                                            !.result = t.result])
  /\ errs' = [errs EXCEPT ![s] = NoError]
  /\ UNCHANGED <<debug, made>>

\* a function evaluates check_pending_exception!(env, code, msg) on the status
\* a foreign call returned; the Error of an Err result lives on in a slot
CheckPendingException(env, c, msg, cst) ==
  /\ Idle
  /\ FreeSlots # {}
  /\ c = napi_pending_exception => host.pending # NullValue
  /\ (c = napi_pending_exception /\ cst = napi_ok) => FreeRefs(host) # {}
  /\ LET m == CheckPendingExceptionOf(host, env, c, msg, cst) IN
     /\ host' = m.h
     /\ errs' = IF m.result.ok THEN errs
                ELSE [errs EXCEPT ![FirstFree] = m.result.err]
     /\ made' = IF m.result.ok THEN made ELSE made + 1
     /\ last' = [Done("check_pending_exception", IF m.result.ok THEN NULL ELSE FirstFree,
                      "Error", env, m.result.err,
                      [Plain(m.calls) EXCEPT !.value = m.cleared, !.result = m.result,
                                             !.flow = m.flow])
                 EXCEPT !.code = c]
  /\ UNCHANGED debug

\* a function evaluates check_status!(code) (msg empty) or check_status!(code,
\* msg...) on the status a foreign call returned; the Error of an Err result
\* lives on in a slot
CheckStatusMacro(c, msg) ==
  /\ Idle
  /\ FreeSlots # {}
  /\ LET m == CheckStatus(c, msg) IN
     /\ errs' = IF m.ok THEN errs ELSE [errs EXCEPT ![FirstFree] = m.err]
     /\ made' = IF m.ok THEN made ELSE made + 1
     /\ last' = [Done("check_status", IF m.ok THEN NULL ELSE FirstFree, "Error", NULL,
                      m.err, [Plain(<<>>) EXCEPT !.result = m])
                 EXCEPT !.code = c, !.msg = msg]
  /\ UNCHANGED <<debug, host>>

\* ------------------------------------------------- the host's own steps
\* a script that native code called throws object v: it becomes the pending
\* exception
HostThrows(v) ==
  /\ Idle
  /\ host.pending = NullValue
  /\ v \notin host.collected
  /\ host' = [host EXCEPT !.pending = v]
  /\ last' = NoOp
  /\ UNCHANGED <<debug, errs, made>>

\* native code has returned and the script catches the pending exception
HostCatches ==
  /\ Idle
  /\ host.pending # NullValue
  /\ host' = [host EXCEPT !.pending = NullValue]
  /\ last' = NoOp
  /\ UNCHANGED <<debug, errs, made>>

\* the handle scopes that held v have closed and the garbage collector reclaims
\* it: only weak references reach it
HostGC(v) ==
  /\ Idle
  /\ Reclaimable(host, v)
  /\ WeakRefs(host, v) # {}
  /\ host' = [host EXCEPT !.collected = @ \cup {v}]
  /\ last' = NoOp
  /\ UNCHANGED <<debug, errs, made>>

HostStep ==
  \/ \E v \in Objects : HostThrows(v)
  \/ HostCatches
  \/ \E v \in Objects : HostGC(v)

\* the outcomes the host can give the foreign calls an operation on err makes
Statuses == {napi_ok} \cup FailureCodes
DeleteStatuses(err) ==
  IF DropReleases(err) THEN {napi_ok, napi_generic_failure} ELSE {napi_ok}
GetOutcomes(err) ==
  IF HasRetained(err) /\ host.refs[err.maybe_raw].state = "deleted"
  THEN UBOutcomes ELSE {"null"}

Construct ==
  \/ \E st \in ErrStatuses, rs \in Reasons : New(st, rs)
  \/ \E st \in ErrStatuses : FromStatus(st)
  \/ \E rs \in Reasons : FromReason(rs)
  \/ \E env \in Envs, v \in Objects, cst \in Statuses :
       FromJsUnknown(env, v, cst)
  \/ \E env \in Envs, c \in RawCodes, msg \in Reasons :
       \E cst \in (IF c = napi_pending_exception THEN Statuses ELSE {napi_ok}) :
         CheckPendingException(env, c, msg, cst)
  \/ \E c \in RawCodes, msg \in Reasons : CheckStatusMacro(c, msg)

Use ==
  \/ \E s \in LiveSlots, f \in FieldEdits : SetFields(s, f[1], f[2])
  \/ \E s \in LiveSlots, k \in Kinds, env \in Envs :
       \E ub \in GetOutcomes(errs[s]), dst \in DeleteStatuses(errs[s]) :
         \/ IntoValue(s, k, env, ub, dst)
         \/ IntoUnknown(s, k, env, ub, dst)
         \/ ThrowInto(s, k, env, ub, dst)
  \/ \E s \in LiveSlots, k \in Kinds \cup {"Error"}, env \in Envs :
       \E ub \in GetOutcomes(errs[s]), dst \in DeleteStatuses(errs[s]) :
         ToNapiValue(s, k, env, ub, dst)
  \/ \E s \in LiveSlots, k \in Kinds, env \in Envs : Throw(s, k, env)
  \/ \E s \in LiveSlots : \E dst \in DeleteStatuses(errs[s]) : Drop(s, dst)
  \/ \E s \in LiveSlots : Display(s)

\* the caller takes the result of the operation and goes on
Resume ==
  /\ last # NoOp
  /\ last' = NoOp
  /\ UNCHANGED <<debug, errs, host, made>>

Next ==
  \/ Construct
  \/ Use
  \/ HostStep
  \/ \E s \in LiveSlots : Clone(s)
  \/ Resume

Spec == Init /\ [][Next]_vars

\* the same program when no Error is ever cloned
NextNoClone ==
  \/ Construct
  \/ Use
  \/ HostStep
  \/ Resume

SpecNoClone == Init /\ [][NextNoClone]_vars

\* ------------------------------------------------------------ claims
\* the foreign calls to fn that the operation just performed made
CallsTo(fn) == {i \in DOMAIN last.calls : last.calls[i].fn = fn}
Ctors == {KindCtor(k) : k \in Kinds}
CtorCalls == {i \in DOMAIN last.calls : last.calls[i].fn \in Ctors}
LastIs(ops) == last # NoOp /\ last.op \in ops
\* the value that the reference of err was created for
Wrapped(err) == host.refs[err.maybe_raw].value
Materializers == {"into_value", "into_unknown", "to_napi_value"}
Throwers == {"throw", "throw_into"}

\* C1: while an Error holds a reference no napi_delete_reference call has been
\* made on it, and once the Error is gone (dropped, or consumed by into_value,
\* into_unknown, to_napi_value or throw_into) exactly one has been made.
ExactlyOneRelease ==
  \A r \in Refs :
    host.refs[r].state # "free" =>
      host.deleteCalls[r] = (IF Holders(r) = {} THEN 1 ELSE 0)

ExactlyOneReleaseWitness ==
  /\ LastIs({"into_value", "throw_into", "to_napi_value", "drop"})
  /\ HasRetained(last.err)
  /\ Holders(last.err.maybe_raw) = {}
  /\ host.deleteCalls[last.err.maybe_raw] = 1

\* C2: no reference handle ever has napi_delete_reference called on it by two
\* Error values (a clone of an Error does not share the original's handle).
NoSharedRelease ==
  /\ \A r \in Refs : host.deleteCalls[r] <= 1
  /\ \A r \in Refs : Cardinality(Holders(r)) <= 1

\* C3: materializing an Error that retains an exception returns the wrapped
\* value itself and creates no string and no error object.
MaterializeReturnsOriginal ==
  (LastIs(Materializers) /\ HasRetained(last.err)) =>
    /\ last.value = Wrapped(last.err)
    /\ CallsTo("napi_create_string_utf8") = {}
    /\ CtorCalls = {}

\* C4: a throw operation on an Error that retains an exception passes the
\* retained value to napi_throw and builds no new exception object.
ThrowRethrowsOriginal ==
  (LastIs(Throwers) /\ HasRetained(last.err)) =>
    /\ \A i \in CallsTo("napi_throw") : last.calls[i].val = Wrapped(last.err)
    /\ CtorCalls = {}

\* C5: a throw operation on an Error whose status is PendingException makes no
\* napi_throw call and creates no host object.
PendingStatusThrowsNothing ==
  (LastIs(Throwers) /\ last.err.status = PendingException) =>
    /\ CallsTo("napi_throw") = {}
    /\ CtorCalls = {}
    /\ CallsTo("napi_create_string_utf8") = {}

\* C6: check_pending_exception on napi_pending_exception clears the exception
\* once and returns Err from the enclosing function; on napi_ok it gives Ok and
\* makes no foreign call; on any other status it gives, in place, a plain Err of
\* that status and makes no foreign call.
CheckPendingContract ==
  LastIs({"check_pending_exception"}) =>
    CASE last.code = napi_pending_exception ->
           /\ Cardinality(CallsTo("napi_get_and_clear_last_exception")) = 1
           /\ last.flow = "return"
           /\ ~last.result.ok
      [] last.code = napi_ok ->
           /\ last.result.ok
           /\ last.flow = "continue"
           /\ last.calls = <<>>
      [] OTHER ->
           /\ ~last.result.ok
           /\ last.flow = "continue"
           /\ last.result.err.status = StatusFrom(last.code)
           /\ ~HasRetained(last.result.err)
           /\ last.calls = <<>>

CheckPendingWitness ==
  /\ LastIs({"check_pending_exception"})
  /\ last.code = napi_pending_exception
  /\ last.flow = "return"
  /\ last.value \in Objects
  /\ host.pending = NullValue

\* the status that napi_create_reference returned to the operation just performed
CreateReferenceFailed ==
  \E i \in CallsTo("napi_create_reference") : last.calls[i].status # napi_ok
CreateReferenceSucceeded ==
  \E i \in CallsTo("napi_create_reference") : last.calls[i].status = napi_ok

\* C7 as stated: whenever check_pending_exception takes the pending branch, the
\* Error it propagates retains the exception it cleared.
PendingBranchAlwaysRetains ==
  (LastIs({"check_pending_exception"}) /\ last.code = napi_pending_exception) =>
    /\ HasRetained(last.result.err)
    /\ Wrapped(last.result.err) = last.value

\* C7 amended: when the pending branch is taken and napi_create_reference
\* succeeds, the propagated Error holds the reference created for the very
\* exception that was cleared; when napi_create_reference fails, the Error holds
\* no reference.
PendingBranchRetainsIfReferenced ==
  (LastIs({"check_pending_exception"}) /\ last.code = napi_pending_exception) =>
    /\ CreateReferenceSucceeded =>
         /\ HasRetained(last.result.err)
         /\ Wrapped(last.result.err) = last.value
         /\ host.refs[last.result.err.maybe_raw].state = "live"
         /\ errs[last.slot] = last.result.err
    /\ CreateReferenceFailed => ~HasRetained(last.result.err)

PendingBranchRetainsWitness ==
  /\ LastIs({"check_pending_exception"})
  /\ last.code = napi_pending_exception
  /\ CreateReferenceSucceeded
  /\ HasRetained(last.result.err)
  /\ last.value \in Objects

\* the operations that run From<JsUnknown>, and the Error it returned
Wrappers == {"from_js_unknown", "check_pending_exception"}

RetainedWhileAlive ==
  \A s \in LiveSlots :
    (HasRetained(errs[s]) /\ host.refs[errs[s].maybe_raw].state = "live") =>
      /\ host.refs[errs[s].maybe_raw].count >= 1
      /\ Wrapped(errs[s]) \notin host.collected

\* C10: a throw operation on an Error without a retained exception and with a
\* status other than PendingException makes exactly one napi_throw call.
ExactlyOneThrowCall ==
  (LastIs(Throwers) /\ ~HasRetained(last.err) /\ last.err.status # PendingException) =>
    Cardinality(CallsTo("napi_throw")) = 1

\* the operations that construct an Error from native data alone
PlainConstructors == {"new", "from_status", "from_reason"}

\* C11: Error::new, from_status and from_reason make no foreign call and give an
\* Error without a handle; cloning, formatting and dropping an Error without a
\* handle make no foreign call either, and the clone has no handle.
PlainErrorsMakeNoForeignCall ==
  /\ LastIs(PlainConstructors) =>
       /\ last.calls = <<>>
       /\ ~HasRetained(last.err)
       /\ last.err.maybe_env = NULL
       /\ errs[last.slot] = last.err
  /\ (LastIs({"clone", "display", "drop"}) /\ ~HasRetained(last.err)) =>
       /\ last.calls = <<>>
       /\ last.op = "clone" => ~HasRetained(errs[last.slot])
       /\ last.op = "drop" => CallsTo("napi_delete_reference") = {}

PlainErrorsWitness ==
  /\ LastIs({"drop"})
  /\ ~HasRetained(last.err)
  /\ last.slot = 2
  /\ last.err.reason = "boom"
  /\ last.err.status = GenericFailure
  /\ last.calls = <<>>
  /\ errs[1].live /\ ~HasRetained(errs[1])

\* C12: every napi_get_reference_value and napi_delete_reference call on the
\* handle of an Error is made with the env stored in that Error (maybe_env),
\* whatever env the caller passes to the operation.
HandleCallsUseStoredEnv ==
  (last # NoOp /\ last.err.live /\ HasRetained(last.err)) =>
    \A i \in CallsTo("napi_get_reference_value") \cup CallsTo("napi_delete_reference") :
      /\ last.calls[i].ref = last.err.maybe_raw
      /\ last.calls[i].env = last.err.maybe_env

\* the operations that turn a wrapper into a host error object
MaterializationPaths == {"into_value", "into_unknown", "throw_into", "throw", "to_napi_value"}
\* the texts of the strings the operation just performed created, in order
StringsCreated ==
  [i \in 1..Cardinality(CallsTo("napi_create_string_utf8")) |->
     last.calls[CHOOSE j \in CallsTo("napi_create_string_utf8") :
                  Cardinality({k \in CallsTo("napi_create_string_utf8") : k <= j}) = i].val.text]

\* C13: every materialization path of a wrapper whose Error has no retained
\* exception (and whose throw is not skipped for PendingException) creates two
\* strings, the status rendered as text and the reason, and calls the host
\* constructor of the wrapper's own variant exactly once with them.
OwnConstructorOnce ==
  (/\ LastIs(MaterializationPaths)
   /\ last.kind \in Kinds
   /\ ~HasRetained(last.err)
   /\ ~(last.op = "throw_into" /\ last.err.status = PendingException)) =>
    /\ StringsCreated = <<StatusDebug(last.err.status), last.err.reason>>
    /\ Cardinality(CtorCalls) = 1
    /\ \A i \in CtorCalls :
         /\ last.calls[i].fn = KindCtor(last.kind)
         /\ last.calls[i].val = HostError(KindCtor(last.kind), StatusDebug(last.err.status),
                                           last.err.reason)

\* C14: check_status gives Ok exactly for napi_ok; for every other code,
\* napi_pending_exception included, it gives Err of an Error with the Status
\* mapped from the code, the message as reason and no handle; it makes no
\* foreign call.
CheckStatusContract ==
  LastIs({"check_status"}) =>
    /\ last.result.ok <=> last.code = napi_ok
    /\ last.calls = <<>>
    /\ last.flow = "continue"
    /\ ~last.result.ok =>
         /\ last.result.err.status = StatusFrom(last.code)
         /\ last.result.err.reason = last.msg
         /\ last.result.err.maybe_raw = NULL
         /\ last.result.err.maybe_env = NULL
         /\ errs[last.slot] = last.result.err

CheckStatusWitness ==
  /\ LastIs({"check_status"})
  /\ last.code = napi_pending_exception
  /\ last.msg = "boom"
  /\ ~last.result.ok
  /\ last.result.err.status = PendingException
  /\ host.pending = NullValue

\* the operations that end the life of the Error they are applied to
Consumers == {"drop", "into_value", "into_unknown", "to_napi_value", "throw_into"}
\* napi_delete_reference returned a failure to the operation just performed
DeleteReferenceFailed ==
  \E i \in CallsTo("napi_delete_reference") : last.calls[i].status # napi_ok

\* C15: when napi_delete_reference fails during the drop of an Error in a build
\* without debug assertions, the program stops on the failed assertion.
DropFailureAssertedInRelease ==
  (LastIs(Consumers) /\ DeleteReferenceFailed /\ ~debug) => last.panic

\* the napi_delete_reference calls the operation just performed made on r
DeletesInLast(r) ==
  {i \in CallsTo("napi_delete_reference") : last.calls[i].ref = r}

\* C16: napi_get_reference_value is never called on a handle on which
\* napi_delete_reference was called before: when an operation reads a handle,
\* the only delete calls the host has seen on it are those the operation itself
\* made after the read.
NoUseAfterRelease ==
  last # NoOp =>
    \A i \in CallsTo("napi_get_reference_value") :
      LET r == last.calls[i].ref IN
      /\ \A j \in DeletesInLast(r) : j > i
      /\ host.deleteCalls[r] = Cardinality(DeletesInLast(r))

\* an Error as a successful From<JsUnknown> leaves it
FreshlyWrapped(err) ==
  HasRetained(err) /\ err.status = GenericFailure /\ err.reason = ""

\* C17: a successful wrap gives status GenericFailure and an empty reason, so
\* throw_into on such an Error is not skipped: unless an assertion stops the
\* program, it calls napi_throw and the host has a pending exception afterwards.
WrappedErrorIsRethrown ==
  /\ (LastIs(Wrappers) /\ CreateReferenceSucceeded) => FreshlyWrapped(last.err)
  /\ (LastIs({"throw_into"}) /\ FreshlyWrapped(last.err) /\ ~last.panic) =>
       /\ CallsTo("napi_throw") # {}
       /\ host.pending # NullValue

====
